---- MODULE Spec2Model ----
(***************************************************************************)
(* State-machine model of src/src/block.tsx: the Block widget (auto-rotate *)
(* flag, camera mode, camera-control reference, one-shot completion timer) *)
(* and the DuckModel it renders inside a Suspense boundary of the canvas.  *)
(*                                                                         *)
(* Time is counted in milliseconds, the model's rotation in milliradians   *)
(* (a frame of delta ms adds delta * 0.5 mrad, as delta s adds             *)
(* delta * 0.5 rad in the source).                                         *)
(***************************************************************************)
EXTENDS Integers, Sequences, FiniteSets

VARIABLES
    mounted,      \* Block is mounted in the page
    mountId,      \* how many times Block has been mounted (names the mount)
    title,        \* prop title
    description,  \* prop description ("" when absent)
    autoRotate,   \* useState(true)
    cameraMode,   \* useState('orbit')
    controlsRef,  \* controlsRef.current
    timers,       \* per mount: the setTimeout handle of its effect
    now,          \* wall clock, ms
    posted,       \* every postMessage call made so far, in order
    loadState,    \* useLoader's cache entry for the requested URL
    requested,    \* the URLs handed to useLoader so far
    scene,        \* what the Suspense boundary in the canvas shows
    rotation,     \* meshRef.current.rotation.y, mrad
    camera,       \* pose of the canvas camera
    resetCalls,   \* calls of controlsRef.current.reset() so far
    handlerFault, \* an event handler has thrown
    interacted,   \* the user has used a control of the current mount
    lastHandler   \* the UI handler the last step ran, "none" for any other step

vars == <<mounted, mountId, title, description, autoRotate, cameraMode,
          controlsRef, timers, now, posted, loadState, requested, scene,
          rotation, camera, resetCalls, handlerFault, interacted, lastHandler>>

----------------------------------------------------------------------------
\* Bounds of the model

MaxMounts == 2
MaxTicks == 4
MaxResets == 1
\* The clock advances by half the timer's delay or by all of it, up to MaxTime.
FrameDeltas == {500, 1000}
MaxTime == MaxTicks * 500
\* The props Block is rendered with: <<title, description>>; the first is the
\* defaults (no description).
PropsChoices == {<<"3D Duck Visualizer", "">>, <<"Custom title", "A duck">>}

----------------------------------------------------------------------------
\* Constants of the program

ModelUrl == "https://content.mext.app/uploads/bae853a8-ee93-4c72-9007-d73e1df8dba9.glb"
BlockId == "685da7c487fb8b8b70d865d2"
TimerDelay == 1000
DefaultTitle == "3D Duck Visualizer"
InitialAutoRotate == TRUE
InitialCameraMode == "orbit"
Null == "null"
Controls == "OrbitControls"

CompletionMessage ==
    [type |-> "BLOCK_COMPLETION", blockId |-> BlockId, completed |-> TRUE]

Mounts == 1..MaxMounts
NoTimer == [state |-> "unset", due |-> 0]

TimerStates == {"unset", "pending", "fired", "cleared"}
LoadStates == {"idle", "pending", "loaded", "failed"}
Scenes == {"empty", "fallback", "model"}
Handlers == {"none", "toggle(true)", "toggle(false)", "reset"}

TypeOK ==
    /\ mounted \in BOOLEAN
    /\ mountId \in 0..MaxMounts
    /\ <<title, description>> \in PropsChoices
    /\ autoRotate \in BOOLEAN
    /\ cameraMode \in STRING
    /\ controlsRef \in {Null, Controls}
    /\ \A m \in Mounts :
          timers[m].state \in TimerStates /\ timers[m].due \in 0..MaxTime
    /\ now \in 0..MaxTime
    /\ \A i \in 1..Len(posted) :
          posted[i].target \in {"window", "parent"} /\ posted[i].mount \in Mounts
    /\ loadState \in LoadStates
    /\ requested \subseteq STRING
    /\ scene \in Scenes
    /\ rotation \in 0..MaxTime
    /\ camera \in {"home", "moved"}
    /\ resetCalls \in 0..MaxResets
    /\ handlerFault \in BOOLEAN
    /\ interacted \in BOOLEAN
    /\ lastHandler \in Handlers

----------------------------------------------------------------------------
Init ==
    /\ mounted = FALSE
    /\ mountId = 0
    /\ title = DefaultTitle
    /\ description = ""
    /\ autoRotate = InitialAutoRotate
    /\ cameraMode = InitialCameraMode
    /\ controlsRef = Null
    /\ timers = [m \in Mounts |-> NoTimer]
    /\ now = 0
    /\ posted = <<>>
    /\ loadState = "idle"
    /\ requested = {}
    /\ scene = "empty"
    /\ rotation = 0
    /\ camera = "home"
    /\ resetCalls = 0
    /\ handlerFault = FALSE
    /\ interacted = FALSE
    /\ lastHandler = "none"

----------------------------------------------------------------------------
\* DuckModel: the URL it hands to useLoader. The props are its only inputs.
LoaderUrlFromTitle(t, d, ar) == t

LoaderUrl(t, d, ar) == ModelUrl

\* DuckModel's useFrame callback: the new rotation.y. hasMesh is meshRef.current.
FrameCallbackAlways(hasMesh, ar, rot, delta) ==
    IF hasMesh THEN rot + (delta \div 2) ELSE rot

FrameCallback(hasMesh, ar, rot, delta) ==
    IF hasMesh /\ ar THEN rot + (delta \div 2) ELSE rot

\* The timer's callback: the postMessage calls it makes, in order, for mount m.
TimerCallbackWindowOnly(m) ==
    << [target |-> "window", data |-> CompletionMessage, mount |-> m] >>

TimerCallback(m) ==
    << [target |-> "window", data |-> CompletionMessage, mount |-> m],
       [target |-> "parent", data |-> CompletionMessage, mount |-> m] >>

\* The effect's cleanup, clearTimeout(timer): a pending timer never fires.
EffectCleanupMissing(t) == t

EffectCleanup(t) ==
    IF t.state = "pending" THEN [t EXCEPT !.state = "cleared"] ELSE t

\* What the Suspense boundary shows for a state of the loader's cache entry.
SuspenseShowsStuck(ls) == "fallback"

SuspenseShows(ls) == IF ls = "loaded" THEN "model" ELSE "fallback"

\* A render of DuckModel calls useLoader with its URL.
Requested(t, d, ar) ==
    IF scene # "empty" THEN requested \cup {LoaderUrl(t, d, ar)} ELSE requested

\* Block leaves the page: effect cleanup, refs detached, canvas disposed.
Teardown ==
    /\ mounted' = FALSE
    /\ timers' = [timers EXCEPT ![mountId] = EffectCleanup(@)]
    /\ controlsRef' = Null
    /\ scene' = "empty"
    /\ rotation' = 0
    /\ camera' = "home"

----------------------------------------------------------------------------
\* Block is mounted with props t, d: state initialisers and the mount effect.
Mount(t, d) ==
    /\ ~mounted
    /\ mountId < MaxMounts
    /\ now + TimerDelay <= MaxTime
    /\ mounted' = TRUE
    /\ mountId' = mountId + 1
    /\ title' = t
    /\ description' = d
    /\ autoRotate' = InitialAutoRotate
    /\ cameraMode' = InitialCameraMode
    /\ controlsRef' = Null
    /\ timers' = [timers EXCEPT ![mountId + 1] =
                      [state |-> "pending", due |-> now + TimerDelay]]
    /\ scene' = "empty"
    /\ rotation' = 0
    /\ camera' = "home"
    /\ interacted' = FALSE
    /\ lastHandler' = "none"
    /\ UNCHANGED <<now, posted, loadState, requested, resetCalls, handlerFault>>

Unmount ==
    /\ mounted
    /\ Teardown
    /\ lastHandler' = "none"
    /\ UNCHANGED <<mountId, title, description, autoRotate, cameraMode, now,
                   posted, loadState, requested, resetCalls, handlerFault,
                   interacted>>

\* The parent re-renders Block with new props; the effect (deps []) is not re-run.
Rerender(t, d) ==
    /\ mounted
    /\ title' = t
    /\ description' = d
    /\ requested' = Requested(t, d, autoRotate)
    /\ lastHandler' = "none"
    /\ UNCHANGED <<mounted, mountId, autoRotate, cameraMode, controlsRef, timers,
                   now, posted, loadState, scene, rotation, camera, resetCalls,
                   handlerFault, interacted>>

\* The canvas renders its children for the first time. Canvas hands them to its
\* own renderer once it has measured its container, after Block's mount: until
\* then the header and the controls panel are up, the timer is armed and
\* controlsRef.current is still empty. The commit attaches the OrbitControls
\* ref; DuckModel calls useLoader and suspends (fallback), renders (model) or
\* rethrows a cached load error, which nothing in Block catches.
CanvasCommit ==
    /\ mounted
    /\ scene = "empty"
    /\ requested' = requested \cup {LoaderUrl(title, description, autoRotate)}
    /\ lastHandler' = "none"
    /\ IF loadState = "failed"
       THEN /\ Teardown
            /\ UNCHANGED loadState
       ELSE /\ loadState' = IF loadState = "idle" THEN "pending" ELSE loadState
            /\ scene' = SuspenseShows(loadState)
            /\ controlsRef' = Controls
            /\ rotation' = 0
            /\ UNCHANGED <<mounted, timers, camera>>
    /\ UNCHANGED <<mountId, title, description, autoRotate, cameraMode, now,
                   posted, resetCalls, handlerFault, interacted>>

\* onChange of the auto-rotate checkbox.
ToggleRearmsTimer(checked) ==
    /\ mounted
    /\ autoRotate' = checked
    /\ timers' = [timers EXCEPT ![mountId] =
                      [state |-> "pending", due |-> now + TimerDelay]]
    /\ requested' = Requested(title, description, checked)
    /\ interacted' = TRUE
    /\ lastHandler' = IF checked THEN "toggle(true)" ELSE "toggle(false)"
    /\ UNCHANGED <<mounted, mountId, title, description, cameraMode, controlsRef,
                   now, posted, loadState, scene, rotation, camera,
                   resetCalls, handlerFault>>

ToggleSetsCameraMode(checked) ==
    /\ mounted
    /\ autoRotate' = checked
    /\ cameraMode' = IF checked THEN "auto" ELSE "orbit"
    /\ requested' = Requested(title, description, checked)
    /\ interacted' = TRUE
    /\ lastHandler' = IF checked THEN "toggle(true)" ELSE "toggle(false)"
    /\ UNCHANGED <<mounted, mountId, title, description, controlsRef, timers,
                   now, posted, loadState, scene, rotation, camera,
                   resetCalls, handlerFault>>

Toggle(checked) ==
    /\ mounted
    /\ autoRotate' = checked
    /\ requested' = Requested(title, description, checked)
    /\ interacted' = TRUE
    /\ lastHandler' = IF checked THEN "toggle(true)" ELSE "toggle(false)"
    /\ UNCHANGED <<mounted, mountId, title, description, cameraMode, controlsRef,
                   timers, now, posted, loadState, scene, rotation, camera,
                   resetCalls, handlerFault>>

\* onClick of the Reset Camera button.
ResetCameraUnguarded ==
    /\ mounted
    /\ controlsRef = Null \/ resetCalls < MaxResets
    /\ IF controlsRef # Null
       THEN /\ camera' = "home"
            /\ resetCalls' = resetCalls + 1
            /\ UNCHANGED handlerFault
       ELSE /\ handlerFault' = TRUE
            /\ UNCHANGED <<camera, resetCalls>>
    /\ interacted' = TRUE
    /\ lastHandler' = "reset"
    /\ UNCHANGED <<mounted, mountId, title, description, autoRotate, cameraMode,
                   controlsRef, timers, now, posted, loadState, requested, scene,
                   rotation>>

ResetCamera ==
    /\ mounted
    /\ controlsRef = Null \/ resetCalls < MaxResets
    /\ IF controlsRef # Null
       THEN /\ camera' = "home"
            /\ resetCalls' = resetCalls + 1
       ELSE UNCHANGED <<camera, resetCalls>>
    /\ interacted' = TRUE
    /\ lastHandler' = "reset"
    /\ UNCHANGED <<mounted, mountId, title, description, autoRotate, cameraMode,
                   controlsRef, timers, now, posted, loadState, requested, scene,
                   rotation, handlerFault>>

\* The user drags or scrolls inside the canvas: OrbitControls moves the camera.
OrbitDrag ==
    /\ mounted
    /\ controlsRef # Null
    /\ camera' = "moved"
    /\ interacted' = TRUE
    /\ lastHandler' = "none"
    /\ UNCHANGED <<mounted, mountId, title, description, autoRotate, cameraMode,
                   controlsRef, timers, now, posted, loadState, requested, scene,
                   rotation, resetCalls, handlerFault>>

\* A render frame, delta ms after the previous one: the useFrame callback runs.
Frame(delta) ==
    /\ mounted
    /\ scene # "empty"
    /\ now + delta <= MaxTime
    /\ now' = now + delta
    /\ rotation' = FrameCallback(scene = "model", autoRotate, rotation, delta)
    /\ lastHandler' = "none"
    /\ UNCHANGED <<mounted, mountId, title, description, autoRotate, cameraMode,
                   controlsRef, timers, posted, loadState, requested, scene,
                   camera, resetCalls, handlerFault, interacted>>

\* Time passes without a frame being rendered.
Tick(d) ==
    /\ now + d <= MaxTime
    /\ now' = now + d
    /\ lastHandler' = "none"
    /\ UNCHANGED <<mounted, mountId, title, description, autoRotate, cameraMode,
                   controlsRef, timers, posted, loadState, requested, scene,
                   rotation, camera, resetCalls, handlerFault, interacted>>

\* The timer of mount m fires: its callback posts the completion messages.
TimerFireAfterInteraction(m) ==
    /\ timers[m].state = "pending"
    /\ now >= timers[m].due
    /\ interacted
    /\ posted' = posted \o TimerCallback(m)
    /\ timers' = [timers EXCEPT ![m].state = "fired"]
    /\ lastHandler' = "none"
    /\ UNCHANGED <<mounted, mountId, title, description, autoRotate, cameraMode,
                   controlsRef, now, loadState, requested, scene, rotation,
                   camera, resetCalls, handlerFault, interacted>>

TimerFire(m) ==
    /\ timers[m].state = "pending"
    /\ now >= timers[m].due
    /\ posted' = posted \o TimerCallback(m)
    /\ timers' = [timers EXCEPT ![m].state = "fired"]
    /\ lastHandler' = "none"
    /\ UNCHANGED <<mounted, mountId, title, description, autoRotate, cameraMode,
                   controlsRef, now, loadState, requested, scene, rotation,
                   camera, resetCalls, handlerFault, interacted>>

\* The asset request completes: the suspended DuckModel renders.
LoadSucceed ==
    /\ loadState = "pending"
    /\ loadState' = "loaded"
    /\ scene' = IF scene = "empty" THEN scene ELSE SuspenseShows("loaded")
    /\ lastHandler' = "none"
    /\ UNCHANGED <<mounted, mountId, title, description, autoRotate, cameraMode,
                   controlsRef, timers, now, posted, requested, rotation, camera,
                   resetCalls, handlerFault, interacted>>

\* The asset request fails: useLoader throws in DuckModel's render. Block has
\* no error boundary, so React removes Block's tree (its effect cleanup runs);
\* the loader's cache keeps the error for later mounts.
LoadFail ==
    /\ loadState = "pending"
    /\ loadState' = "failed"
    /\ lastHandler' = "none"
    /\ IF mounted /\ scene # "empty"
       THEN Teardown
       ELSE UNCHANGED <<mounted, timers, controlsRef, scene, rotation, camera>>
    /\ UNCHANGED <<mountId, title, description, autoRotate, cameraMode, now,
                   posted, requested, resetCalls, handlerFault, interacted>>

Next ==
    \/ \E p \in PropsChoices : Mount(p[1], p[2])
    \/ Unmount
    \/ \E p \in PropsChoices : Rerender(p[1], p[2])
    \/ CanvasCommit
    \/ \E checked \in BOOLEAN : Toggle(checked)
    \/ ResetCamera
    \/ OrbitDrag
    \/ \E delta \in FrameDeltas : Frame(delta)
    \/ \E d \in FrameDeltas : Tick(d)
    \/ \E m \in Mounts : TimerFire(m)
    \/ LoadSucceed
    \/ LoadFail

Spec == Init /\ [][Next]_vars

\* Timers that are due fire, and the clock keeps running.
LiveSpec ==
    /\ Spec
    /\ WF_vars(\E d \in FrameDeltas : Tick(d))
    /\ \A m \in Mounts : WF_vars(TimerFire(m))

----------------------------------------------------------------------------
\* Vocabulary of the properties

\* The number of messages mount m has posted to a target.
PostedTo(m, target) ==
    Cardinality({i \in 1..Len(posted) :
                    posted[i].mount = m /\ posted[i].target = target})

PostedBy(m) == PostedTo(m, "window") + PostedTo(m, "parent")

Live(m) == mounted /\ mountId = m

ToggleHandlers == {"toggle(true)", "toggle(false)"}

----------------------------------------------------------------------------
C2_UnmountSuppresses ==
    [][ /\ posted' # posted =>
              /\ mounted
              /\ \A i \in (Len(posted) + 1)..Len(posted') :
                    posted'[i].mount = mountId
        /\ (mounted /\ ~mounted' /\ timers[mountId].state = "pending") =>
              timers'[mountId].state = "cleared"
        /\ \A m \in Mounts :
              timers'[m].state = "cleared" =>
                  /\ PostedBy(m)' = 0
                  /\ timers[m].state \in {"pending", "cleared"}
        /\ \A m \in Mounts :
              timers[m].state = "cleared" => timers'[m].state = "cleared"
        /\ (~mounted /\ mounted') =>
              /\ mountId' = mountId + 1
              /\ timers'[mountId'] =
                    [state |-> "pending", due |-> now + TimerDelay]
      ]_vars

\* Mount 1 was unmounted early, its delay has long elapsed, and only the
\* remount's timer has fired.
C2_Witness ==
    /\ timers[1].state = "cleared"
    /\ now >= timers[1].due
    /\ timers[2].state = "fired"
    /\ PostedBy(1) = 0
    /\ PostedBy(2) = 2

\* C3: toggling the auto-rotate checkbox sets autoRotate to the checkbox's
\* checked value and changes nothing else: not the camera mode, the controls
\* reference, any timer (neither cancelled nor re-armed), the messages
\* posted, the asset's load state and requests, the scene or the rotation.
C3_ToggleFrame ==
    [][ lastHandler' \in ToggleHandlers =>
            /\ autoRotate' = (lastHandler' = "toggle(true)")
            /\ UNCHANGED <<mounted, mountId, title, description, cameraMode,
                           controlsRef, timers, now, posted, loadState,
                           requested, scene, rotation, camera, resetCalls,
                           handlerFault>>
      ]_vars

\* Auto-rotate was just switched off on a rotated model whose timer is
\* still pending.
C3_Witness ==
    /\ mounted
    /\ lastHandler = "toggle(false)"
    /\ ~autoRotate
    /\ timers[mountId].state = "pending"
    /\ rotation > 0

\* C4: resetCamera with an empty controlsRef.current is a no-op: no reset()
\* call is made, the handler does not throw, and autoRotate, the camera
\* mode, the camera, the timers and the messages posted are unchanged.
C4_ResetWithoutControls ==
    [][ (lastHandler' = "reset" /\ controlsRef = Null) =>
            /\ ~handlerFault'
            /\ UNCHANGED <<resetCalls, camera, handlerFault, autoRotate,
                           cameraMode, controlsRef, timers, posted, mounted,
                           scene, rotation>>
      ]_vars

\* Reset was pressed before the canvas attached the controls.
C4_Witness ==
    /\ mounted
    /\ lastHandler = "reset"
    /\ controlsRef = Null
    /\ resetCalls = 0
    /\ ~handlerFault

C6_FixedUrl ==
    /\ requested \subseteq {ModelUrl}
    /\ (scene # "empty" \/ loadState # "idle") => requested = {ModelUrl}

\* The loader has been called under custom props after the user toggled
\* auto-rotate.
C6_Witness ==
    /\ mounted
    /\ scene # "empty"
    /\ requested = {ModelUrl}
    /\ title # DefaultTitle
    /\ lastHandler \in ToggleHandlers

\* C7: the completion event is sent on the user's first interaction: no
\* completion message is posted before the user has toggled auto-rotate,
\* pressed reset or used the camera controls.
C7_PostedOnFirstInteraction ==
    [][ posted' # posted => interacted ]_vars

\* C8: the model's Y rotation advances only by a frame, by delta * 0.5, with
\* the model group mounted and autoRotate true at that frame; otherwise it
\* changes only when the group is destroyed with Block. Toggling
\* auto-rotate and pressing reset leave the accumulated rotation alone.
C8_RotationOnlyWhenAutoRotate ==
    [][ /\ rotation' # rotation =>
              \/ /\ mounted /\ mounted'
                 /\ scene = "model"
                 /\ autoRotate
                 /\ \E delta \in FrameDeltas :
                       /\ now' = now + delta
                       /\ 2 * (rotation' - rotation) = delta
              \/ /\ ~mounted'
                 /\ rotation' = 0
        /\ lastHandler' \in ToggleHandlers \cup {"reset"} =>
              rotation' = rotation
      ]_vars

\* The model kept its rotation through auto-rotate being switched off,
\* a frame, and a reset.
C8_Witness ==
    /\ mounted
    /\ scene = "model"
    /\ rotation > 0
    /\ ~autoRotate
    /\ lastHandler = "reset"
    /\ resetCalls > 0

\* C9: the camera mode is storage only: it is 'orbit' from mount on and no
\* operation changes it, so nothing the widget does can vary with it.
C9_CameraModeConstant == cameraMode = InitialCameraMode

\* The widget has been through load, timer, toggle and reset.
C9_Witness ==
    /\ mounted
    /\ scene = "model"
    /\ timers[mountId].state = "fired"
    /\ ~autoRotate
    /\ resetCalls > 0
    /\ camera = "moved"

\* C10 as claimed: while the widget is mounted exactly one of the loading
\* indicator and the model is shown, the indicator while the load is
\* pending and the model once it has completed.
C10_OneOfSpinnerAndModel ==
    mounted =>
        /\ scene \in {"fallback", "model"}
        /\ scene = "fallback" <=> loadState = "pending"
        /\ scene = "model" <=> loadState = "loaded"

\* C10 amended: while the widget is mounted and the canvas has rendered its
\* scene, exactly one of the loading indicator and the model is shown: the
\* indicator while the load is pending, the model once it has completed; a
\* model that is shown stays shown until Block is unmounted.
C10_OneOfSpinnerAndModelOnceRendered ==
    /\ []((mounted /\ controlsRef # Null) =>
            /\ scene \in {"fallback", "model"}
            /\ scene = "fallback" <=> loadState = "pending"
            /\ scene = "model" <=> loadState = "loaded")
    /\ []((~mounted \/ controlsRef = Null) => scene = "empty")
    /\ [][ (scene = "model" /\ mounted') => scene' = "model" ]_vars

\* The model replaced the indicator and survived a toggle.
C10_Witness ==
    /\ mounted
    /\ scene = "model"
    /\ loadState = "loaded"
    /\ lastHandler \in ToggleHandlers

====
